---- MODULE Spec2Model ----
(***************************************************************************)
(* A model of bread (src/bread.c): the gap buffer, the terminal mode       *)
(* handling, the key decoder and the edit loop of bread_line.              *)
(*                                                                         *)
(* Addresses are offsets from buffer.start, so start is always 0 and end   *)
(* is the size of the allocation.  The memory the model tracks is the      *)
(* allocation together with Slack bytes before and after it: an access     *)
(* outside the allocation but inside this window is undefined behaviour    *)
(* that either kills the process or touches the neighbouring bytes; an     *)
(* access outside the window always kills the process.                     *)
(***************************************************************************)
EXTENDS Integers, Sequences, FiniteSets, TLC

\* ------------------------------------------------------------------ bounds
\* BREAD_INITIAL_SIZE is 64 in src/bread.h; the model scales it down so that
\* the growth of the allocation is reached with a handful of insertions.
BREAD_INITIAL_SIZE == 1
\* The largest allocation realloc grants; a larger request fails.
MaxSize == 2
\* Bytes tracked on either side of the allocation.
Slack == 2

\* ------------------------------------------------------------------ keys
KEY_LOWEST == 256
KEY_NOKEY == 257
KEY_UP == 258
KEY_DOWN == 259
KEY_RIGHT == 260
KEY_LEFT == 261

\* CTRL_KEY taking the offset of the upper-case letters.
CTRL_KEY_upper(c) == c - 64

CTRL_KEY(c) == c - 96

NL == 10
ESC == 27
DEL == 127
LBRACKET == 91
CH_A == 65
CH_B == 66
CH_C == 67
CH_D == 68
CH_E == CH_D + 1
CH_a == 97
CH_b == 98
CH_d == 100
CH_e == 101
CH_f == 102
CH_h == 104
CH_u == 117
CR == 13

\* The bytes that are typed as text: a letter, and the Escape key alone.
Byte == {CH_a, ESC}

\* The first byte of a read: a text byte, or one of the bytes bread_line
\* dispatches on.
KeyBytes ==
    Byte \cup {NL, DEL, CTRL_KEY(CH_a), CTRL_KEY(CH_b), CTRL_KEY(CH_d),
               CTRL_KEY(CH_e), CTRL_KEY(CH_f), CTRL_KEY(CH_h), CTRL_KEY(CH_u)}

\* The outcomes of read(STDIN_FILENO, c, 3): n is the return value and c the
\* array afterwards (the cells read does not fill hold what they held).
Reads ==
    [n : {-1}, c : {<<CH_a, CH_a, CH_a>>}]
      \cup [n : {0, 1, 2}, c : {<<b, CH_a, CH_a>> : b \in KeyBytes}]
      \cup [n : {3}, c : {<<b, CH_a, CH_a>> : b \in KeyBytes}]
      \cup [n : {3}, c : {<<ESC, LBRACKET, x>> : x \in {CH_A, CH_B, CH_C, CH_D, CH_E}}]
      \cup [n : {3}, c : {<<CH_a, LBRACKET, CH_A>>}]

\* getkey without the check of the result of read (line 166).
getkey_unchecked(r) ==
    IF r.n < 3 THEN r.c[1]
    ELSE IF ~(r.c[1] = ESC /\ r.c[2] = LBRACKET) THEN r.c[1]
    ELSE CASE r.c[3] = CH_A -> KEY_UP [] r.c[3] = CH_B -> KEY_DOWN
           [] r.c[3] = CH_C -> KEY_RIGHT [] r.c[3] = CH_D -> KEY_LEFT
           [] OTHER -> KEY_NOKEY

getkey(r) ==
    IF r.n < 0 THEN KEY_NOKEY
    ELSE IF r.n < 3 THEN r.c[1]
    ELSE IF ~(r.c[1] = ESC /\ r.c[2] = LBRACKET) THEN r.c[1]
    ELSE CASE r.c[3] = CH_A -> KEY_UP
           [] r.c[3] = CH_B -> KEY_DOWN
           [] r.c[3] = CH_C -> KEY_RIGHT
           [] r.c[3] = CH_D -> KEY_LEFT
           [] OTHER -> KEY_NOKEY

\* ------------------------------------------------------------------ memory
\* The addresses tracked around an allocation of size bytes.
Window(size) == (0 - Slack) .. (size + Slack - 1)
InAlloc(b, a) == b.start <= a /\ a < b.end
InWindow(b, a) == a \in Window(b.end - b.start)

\* The addresses n bytes from a touch; n is a size_t, so a negative int is a
\* huge count that leaves every window.
Touched(a, n) == IF n < 0 THEN {a, a + MaxSize + 2 * Slack} ELSE a .. (a + n - 1)

\* What an access to the addresses as does: oob when one of them is outside
\* the allocation, far when one of them is outside the window.
Access(b, as) ==
    [oob |-> \E a \in as : ~InAlloc(b, a),
     far |-> \E a \in as : ~InWindow(b, a)]

Join(x, y) == [oob |-> x.oob \/ y.oob, far |-> x.far \/ y.far]
NoAccess == [oob |-> FALSE, far |-> FALSE]

\* memmove(dst, src, n) on the tracked memory m.
memmove(m, dst, src, n) ==
    [a \in DOMAIN m |->
        IF a >= dst /\ a < dst + n /\ (src + (a - dst)) \in DOMAIN m
        THEN m[src + (a - dst)]
        ELSE m[a]]

\* The bytes at [from, from + n) of the tracked memory, as a sequence.
Bytes(m, from, n) ==
    [i \in 1 .. (IF n < 0 THEN 0 ELSE n) |->
        IF (from + i - 1) \in DOMAIN m THEN m[from + i - 1] ELSE 0]

\* ------------------------------------------------------------------ buffer
\* The result of a buffer operation: the struct, the memory and what it
\* accessed.
Res(b, m, acc) == [b |-> b, m |-> m, acc |-> acc]

\* malloc(init_size) succeeded; fill is what the fresh memory holds.
buffer_init(init_size, fill) ==
    [b |-> [start |-> 0, gap |-> 0, post |-> init_size, end |-> init_size,
            relpos |-> 0],
     m |-> [a \in Window(init_size) |-> fill]]

buffer_forwards(b) ==
    IF b.post + b.relpos < b.end THEN [b EXCEPT !.relpos = b.relpos + 1] ELSE b

buffer_backwards(b) ==
    IF b.gap + b.relpos > b.start THEN [b EXCEPT !.relpos = b.relpos - 1] ELSE b

buffer_move_gap(b, m) ==
    IF b.relpos = 0 THEN Res(b, m, NoAccess)
    ELSE IF b.relpos < 0
    THEN LET gap == b.gap + b.relpos
             post == b.post + b.relpos
         IN Res([b EXCEPT !.gap = gap, !.post = post, !.relpos = 0],
                memmove(m, post, gap, 0 - b.relpos),
                Access(b, Touched(post, 0 - b.relpos)
                            \cup Touched(gap, 0 - b.relpos)))
    ELSE Res([b EXCEPT !.gap = b.gap + b.relpos, !.post = b.post + b.relpos,
                       !.relpos = 0],
             memmove(m, b.gap, b.post, b.relpos),
             Access(b, Touched(b.gap, b.relpos) \cup Touched(b.post, b.relpos)))

\* Whether buffer_insertch has to call realloc.
NeedsGrow(b, m) == LET r == buffer_move_gap(b, m) IN r.b.gap = r.b.post

\* realloc(b->start, newsize) succeeded. moved: the block went elsewhere, so
\* only the old allocation's bytes are kept; otherwise it grew in place and
\* the bytes that followed it are now part of it. fill is what the rest holds.
realloc(b, m, newsize, moved, fill) ==
    [a \in Window(newsize) |->
        IF a \in DOMAIN m /\ (InAlloc(b, a) \/ ~moved) THEN m[a] ELSE fill]

\* The pointers of a grown buffer (lines 101-104).
Regrow(b, newsize) ==
    [b EXCEPT !.gap = b.start + (b.gap - b.start),
              !.post = b.start + newsize + (b.end - b.post),
              !.end = b.start + newsize]

\* *b->gap++ = ch
PutAtGap(b, m, ch) ==
    Res([b EXCEPT !.gap = b.gap + 1],
        IF b.gap \in DOMAIN m THEN [m EXCEPT ![b.gap] = ch] ELSE m,
        Access(b, {b.gap}))

\* buffer_insertch when realloc, if called, succeeds.
buffer_insertch(b, m, ch, moved, fill) ==
    LET r == buffer_move_gap(b, m) IN
    IF r.b.gap = r.b.post
    THEN LET newsize == (r.b.end - r.b.start) * 2
             w == PutAtGap(Regrow(r.b, newsize),
                           realloc(r.b, r.m, newsize, moved, fill), ch)
         IN Res(w.b, w.m, Join(r.acc, w.acc))
    ELSE LET w == PutAtGap(r.b, r.m, ch) IN Res(w.b, w.m, Join(r.acc, w.acc))

buffer_delete_forwards(b, m) ==
    LET r == buffer_move_gap(b, m) IN
    IF r.b.post < r.b.end
    THEN Res([r.b EXCEPT !.post = r.b.post + 1], r.m, r.acc)
    ELSE r

buffer_delete_backwards(b, m) ==
    LET r == buffer_move_gap(b, m) IN
    IF r.b.gap > r.b.start
    THEN Res([r.b EXCEPT !.gap = r.b.gap - 1], r.m, r.acc)
    ELSE r

\* case KEY_UP / CTRL_KEY('a')
move_to_start(b) == [b EXCEPT !.relpos = b.start - b.gap - b.relpos]
\* case KEY_DOWN / CTRL_KEY('e')
move_to_end(b) == [b EXCEPT !.relpos = b.end - b.post]
\* case CTRL_KEY('u')
delete_all(b) == [b EXCEPT !.gap = b.start, !.post = b.end]

\* ------------------------------------------------------------------ terminal
OFlags == {"OPOST", "ONLCR"}
LFlags == {"ECHO", "ICANON", "ISIG"}
Termios == [oflag : SUBSET OFlags, lflag : SUBSET LFlags]

\* The attributes setup_terminal applies (lines 139-141).
RawOf(t) ==
    [oflag |-> t.oflag \cap {"OPOST"}, lflag |-> t.lflag \ {"ECHO", "ICANON"}]

\* ------------------------------------------------------------------ prompt
SOH == 1
STX == 2

\* The count that takes both markers for the end of an invisible span.
RECURSIVE CountAfterMarker(_, _, _)
CountAfterMarker(p, i, counting) ==
    IF i > Len(p) THEN 0
    ELSE IF p[i] = SOH \/ p[i] = STX THEN CountAfterMarker(p, i + 1, TRUE)
    ELSE (IF counting THEN 1 ELSE 0) + CountAfterMarker(p, i + 1, counting)
PromptLenAfterMarker(p) == CountAfterMarker(p, 1, TRUE)

RECURSIVE CountVisible(_, _, _)
CountVisible(p, i, counting) ==
    IF i > Len(p) THEN 0
    ELSE IF p[i] = SOH THEN CountVisible(p, i + 1, FALSE)
    ELSE IF p[i] = STX THEN CountVisible(p, i + 1, TRUE)
    ELSE (IF counting THEN 1 ELSE 0) + CountVisible(p, i + 1, counting)

\* The loop of lines 198-211.
PromptLen(p) == CountVisible(p, 1, TRUE)

\* ------------------------------------------------------------------ redraw
\* What printf("%.*s", precision, ptr) reads and prints. A negative precision
\* is no precision: the string runs to its NUL, which the model places past
\* the window.
PrintRun(b, m, ptr, precision) ==
    LET n == IF precision < 0 THEN (b.end + Slack) - ptr ELSE precision IN
    [text |-> Bytes(m, ptr, n),
     acc |-> IF precision < 0 THEN [oob |-> TRUE, far |-> ~InWindow(b, ptr)]
             ELSE Access(b, Touched(ptr, n))]

\* Lines 269-282. back is postsize - relpos as an integer: the code computes
\* it in size_t, where it is > 0 exactly when it is not 0, and a negative
\* value here is a count wrapped around 2^64.
redraw(b, m, plen) ==
    LET postsize == b.end - b.post
        pre == PrintRun(b, m, b.start, b.gap - b.start)
        post == PrintRun(b, m, b.post, postsize)
    IN [out |-> [col |-> plen, text |-> pre.text \o post.text,
                 back |-> postsize - b.relpos],
        acc |-> Join(pre.acc, post.acc)]

\* ------------------------------------------------------------------ reference
\* A plain string with a cursor: what the edits mean, independent of the gap
\* buffer. text is the line, cur the number of bytes left of the cursor.
RefEmpty == [text |-> <<>>, cur |-> 0]
RefInsert(r, ch) ==
    [text |-> SubSeq(r.text, 1, r.cur) \o <<ch>>
                \o SubSeq(r.text, r.cur + 1, Len(r.text)),
     cur |-> r.cur + 1]
RefLeft(r) == IF r.cur > 0 THEN [r EXCEPT !.cur = r.cur - 1] ELSE r
RefRight(r) == IF r.cur < Len(r.text) THEN [r EXCEPT !.cur = r.cur + 1] ELSE r
RefStart(r) == [r EXCEPT !.cur = 0]
RefEnd(r) == [r EXCEPT !.cur = Len(r.text)]
RefDeleteForwards(r) ==
    IF r.cur < Len(r.text)
    THEN [r EXCEPT !.text = SubSeq(r.text, 1, r.cur)
                              \o SubSeq(r.text, r.cur + 2, Len(r.text))]
    ELSE r
RefDeleteBackwards(r) ==
    IF r.cur > 0
    THEN [text |-> SubSeq(r.text, 1, r.cur - 1)
                     \o SubSeq(r.text, r.cur + 1, Len(r.text)),
          cur |-> r.cur - 1]
    ELSE r
RefDeleteAll(r) == RefEmpty

\* ------------------------------------------------------------------ state
VARIABLES
    pc,           \* where bread_line is: "start", "loop", "done", "crashed"
    prompt,       \* the argument of bread_line
    prompt_len,   \* its visible width
    tty,          \* the terminal's attributes
    old_termios,  \* the attributes setup_terminal saved
    acquired,     \* setup_terminal has succeeded
    restores,     \* calls of restore_terminal so far
    restore_failed, \* a call of restore_terminal has failed
    buffer,       \* struct buffer
    mem,          \* the allocation and its neighbourhood
    allocs,       \* successful buffer_init calls
    frees,        \* calls of free(buffer.start)
    out,          \* what the last printf sequence wrote
    ret,          \* what bread_line returned
    ub,           \* an access outside the allocation has happened
    tracking,     \* the reference line is being kept
    ref,          \* the reference line the same edits produce
    strict,       \* the run stops at the first access outside the allocation
    watching,     \* the read and the command of each iteration are recorded
    rd,           \* the outcome of the last read
    cmd           \* the case of the switch the last iteration took

vars ==
    <<pc, prompt, prompt_len, tty, old_termios, acquired, restores,
      restore_failed, buffer, mem, allocs, frees, out, ret, ub, tracking, ref,
      strict, watching, rd, cmd>>

term_vars == <<tty, old_termios, acquired, restores, restore_failed>>
ref_vars == <<tracking, ref>>
key_vars == <<strict, watching, rd, cmd>>
buf_vars == <<buffer, mem, allocs, frees>>

Prompts == {<<SOH, ESC, STX, CH_a>>}
InitialTermios ==
    {[oflag |-> {"OPOST", "ONLCR"}, lflag |-> {"ECHO", "ICANON", "ISIG"}]}

NoBuffer == [start |-> 0, gap |-> 0, post |-> 0, end |-> 0, relpos |-> 0]
NoMem == [a \in {} |-> CH_a]
NoTermios == [oflag |-> {}, lflag |-> {}]
NoOut == [col |-> 0, text |-> <<>>, back |-> 0]
NoRet == [returned |-> FALSE, null |-> TRUE, line |-> <<>>]
RetNull == [returned |-> TRUE, null |-> TRUE, line |-> <<>>]
RetLine(l) == [returned |-> TRUE, null |-> FALSE, line |-> l]

\* The line the buffer holds and where its cursor is.
Pre == Bytes(mem, buffer.start, buffer.gap - buffer.start)
Post == Bytes(mem, buffer.post, buffer.end - buffer.post)
Line == Pre \o Post
Cursor == (buffer.gap - buffer.start) + buffer.relpos

\* No read has happened yet, no case of the switch was taken.
NoRead == [n |-> 0 - 1, c |-> <<CH_a, CH_a, CH_a>>]
Cmd(op, ch) == [op |-> op, ch |-> ch]
NoCmd == Cmd("none", 0)

InitProgram ==
    /\ pc = "start"
    /\ prompt_len = 0
    /\ tty \in InitialTermios
    /\ old_termios = NoTermios
    /\ acquired = FALSE
    /\ restores = 0
    /\ restore_failed = FALSE
    /\ buffer = NoBuffer
    /\ mem = NoMem
    /\ allocs = 0
    /\ frees = 0
    /\ out = NoOut
    /\ ret = NoRet
    /\ ub = FALSE
    /\ ref = RefEmpty
    /\ rd = NoRead
    /\ cmd = NoCmd

\* How the run is observed.
Observe(t, s, w) == tracking = t /\ strict = s /\ watching = w

Init == InitProgram /\ prompt \in Prompts /\ Observe(FALSE, FALSE, FALSE)
\* The differential run: every edit is applied to the reference line too, and
\* the run stops at the first line that differs from it.
InitRef == InitProgram /\ prompt \in Prompts /\ Observe(TRUE, FALSE, FALSE)

\* ------------------------------------------------------------------ entry
\* Lines 195-211: the prompt is written and its visible width counted.
Prologue ==
    /\ pc = "start"
    /\ prompt_len' = PromptLen(prompt)
    /\ out' = [col |-> 0, text |-> prompt, back |-> 0]

\* setup_terminal failing after the raw attributes took effect.
SetupFailsRaw ==
    /\ Prologue
    /\ old_termios' = tty
    /\ tty' = RawOf(tty)
    /\ pc' = "done"
    /\ ret' = RetNull
    /\ UNCHANGED <<prompt, acquired, restores, restore_failed, buf_vars,
                   ub, ref_vars, key_vars>>

\* Lines 213-216: tcgetattr fails, or tcsetattr fails after the attributes
\* were saved; bread_line returns NULL.
SetupFails ==
    /\ Prologue
    /\ \/ UNCHANGED old_termios
       \/ old_termios' = tty
    /\ pc' = "done"
    /\ ret' = RetNull
    /\ UNCHANGED <<prompt, tty, acquired, restores, restore_failed, buf_vars,
                   ub, ref_vars,
                   key_vars>>

\* Lines 213-221: the terminal is raw, malloc fails; bread_line returns NULL.
InitFails ==
    /\ Prologue
    /\ old_termios' = tty
    /\ tty' = RawOf(tty)
    /\ acquired' = TRUE
    /\ pc' = "done"
    /\ ret' = RetNull
    /\ UNCHANGED <<prompt, restores, restore_failed, buf_vars, ub, ref_vars,
                   key_vars>>

\* Lines 213-222: the terminal is raw and the buffer allocated.
EnterLoop ==
    /\ Prologue
    /\ old_termios' = tty
    /\ tty' = RawOf(tty)
    /\ acquired' = TRUE
    /\ \E fill \in Byte :
         LET i == buffer_init(BREAD_INITIAL_SIZE, fill) IN
         /\ buffer' = i.b
         /\ mem' = i.m
    /\ allocs' = allocs + 1
    /\ pc' = "loop"
    /\ UNCHANGED <<prompt, restores, restore_failed, frees, ret, ub, ref_vars,
                   key_vars>>

\* ------------------------------------------------------------------ loop
\* The loop is running (and, in the differential run, the line still agrees
\* with the reference).
Running == pc = "loop" /\ (tracking => Line = ref.text) /\ (strict => ~ub)

\* The outcomes of the read that getkey decodes to key; they are told apart
\* only where the reads are recorded.
ReadsOf(key) == {r \in Reads : getkey(r) = key}
Seen(key) == IF watching THEN ReadsOf(key) ELSE {rd}

\* The read of this iteration and the case of the switch it reached.
Record(read, c) ==
    /\ rd' = read
    /\ cmd' = (IF watching THEN c ELSE cmd)
    /\ UNCHANGED <<strict, watching>>

\* The process dies on an access outside the allocation.
Crash(read, c) ==
    /\ pc' = "crashed"
    /\ Record(read, c)
    /\ UNCHANGED <<prompt, prompt_len, term_vars, buf_vars, out, ret, ub, ref_vars>>

\* One iteration of the loop that applied an edit with result r, followed by
\* the redraw of lines 269-282.
Iterate(read, c, r, newref) ==
    LET d == redraw(r.b, r.m, prompt_len)
        acc == Join(r.acc, d.acc)
    IN \/ /\ acc.oob
          /\ Crash(read, c)
       \/ /\ ~acc.far
          /\ buffer' = r.b
          /\ mem' = r.m
          /\ out' = d.out
          /\ ub' = (ub \/ acc.oob)
          /\ ref' = (IF tracking THEN newref ELSE ref)
          /\ UNCHANGED tracking
          /\ Record(read, c)
          /\ UNCHANGED <<pc, prompt, prompt_len, term_vars, allocs, frees, ret>>

\* The keys getkey returns over all outcomes of the read.
Keys == {getkey(r) : r \in Reads}

NoKey ==
    /\ Running
    /\ \E key \in Keys \cap {KEY_NOKEY} :
         \E read \in Seen(key) :
         Iterate(read, Cmd("none", 0), Res(buffer, mem, NoAccess), ref)

Backwards ==
    /\ Running
    /\ \E key \in Keys \cap {CTRL_KEY(CH_b), KEY_LEFT} :
         \E read \in Seen(key) :
         Iterate(read, Cmd("left", 0), Res(buffer_backwards(buffer), mem, NoAccess),
                 RefLeft(ref))

Forwards ==
    /\ Running
    /\ \E key \in Keys \cap {CTRL_KEY(CH_f), KEY_RIGHT} :
         \E read \in Seen(key) :
         Iterate(read, Cmd("right", 0), Res(buffer_forwards(buffer), mem, NoAccess),
                 RefRight(ref))

ToStart ==
    /\ Running
    /\ \E key \in Keys \cap {CTRL_KEY(CH_a), KEY_UP} :
         \E read \in Seen(key) :
         Iterate(read, Cmd("start", 0), Res(move_to_start(buffer), mem, NoAccess),
                 RefStart(ref))

ToEnd ==
    /\ Running
    /\ \E key \in Keys \cap {CTRL_KEY(CH_e), KEY_DOWN} :
         \E read \in Seen(key) :
         Iterate(read, Cmd("end", 0), Res(move_to_end(buffer), mem, NoAccess),
                 RefEnd(ref))

DeleteForwards ==
    /\ Running
    /\ \E key \in Keys \cap {CTRL_KEY(CH_d)} :
         \E read \in Seen(key) :
         Iterate(read, Cmd("delete-forward", 0), buffer_delete_forwards(buffer, mem),
                 RefDeleteForwards(ref))

DeleteAll ==
    /\ Running
    /\ \E key \in Keys \cap {CTRL_KEY(CH_u)} :
         \E read \in Seen(key) :
         Iterate(read, Cmd("delete-all", 0), Res(delete_all(buffer), mem, NoAccess),
                 RefDeleteAll(ref))

DeleteBackwards ==
    /\ Running
    /\ \E key \in Keys \cap {CTRL_KEY(CH_h), DEL} :
         \E read \in Seen(key) :
         Iterate(read, Cmd("delete-backward", 0), buffer_delete_backwards(buffer, mem),
                 RefDeleteBackwards(ref))

\* The keys of the default case.
Dispatched ==
    {NL, KEY_NOKEY, KEY_LEFT, KEY_RIGHT, KEY_UP, KEY_DOWN, DEL,
     CTRL_KEY(CH_a), CTRL_KEY(CH_b), CTRL_KEY(CH_d), CTRL_KEY(CH_e),
     CTRL_KEY(CH_f), CTRL_KEY(CH_h), CTRL_KEY(CH_u)}
Inserted == Keys \ Dispatched

\* default: buffer_insertch succeeds (realloc, if called, grants the memory).
Insert ==
    /\ Running
    /\ \E key \in Inserted, moved \in BOOLEAN, fill \in Byte :
         /\ NeedsGrow(buffer, mem) =>
              (buffer_move_gap(buffer, mem).b.end - buffer.start) * 2 <= MaxSize
         /\ ~NeedsGrow(buffer, mem) => (moved /\ fill = CH_a)
         /\ \E read \in Seen(key) :
              Iterate(read, Cmd("insert", key),
                      buffer_insertch(buffer, mem, key, moved, fill),
                      RefInsert(ref, key))

\* default: realloc fails; lines 97-99 and 263-266.
InsertFails ==
    /\ Running
    /\ NeedsGrow(buffer, mem)
    /\ \E key \in Inserted :
         \E read \in Seen(key) :
         LET g == buffer_move_gap(buffer, mem) IN
         \/ /\ g.acc.oob
            /\ Crash(read, Cmd("insert", key))
         \/ /\ ~g.acc.far
            /\ buffer' = g.b
            /\ mem' = g.m
            /\ ub' = (ub \/ g.acc.oob)
            /\ frees' = frees + 1
            /\ pc' = "done"
            /\ ret' = RetNull
            /\ Record(read, Cmd("insert", key))
            /\ UNCHANGED <<prompt, prompt_len, term_vars, allocs, out, ref_vars>>

\* ------------------------------------------------------------------ submit
CRLF == [col |-> 0, text |-> <<CR, NL>>, back |-> 0]

\* Lines 226-229 and 285-293: newline, and malloc of the line fails.
SubmitFails ==
    /\ Running
    /\ \E read \in Seen(NL) : Record(read, Cmd("submit", 0))
    /\ out' = CRLF
    /\ frees' = frees + 1
    /\ pc' = "done"
    /\ ret' = RetNull
    /\ UNCHANGED <<prompt, prompt_len, term_vars, buffer, mem, allocs, ub, ref_vars>>

\* finalize with the second memcpy reading at the gap instead of at post.
finalize_from_gap(b, m) ==
    LET presize == b.gap - b.start
        postsize == b.end - b.post
    IN [line |-> Bytes(m, b.start, presize) \o Bytes(m, b.gap, postsize),
        acc |-> Access(b, Touched(b.start, presize)
                            \cup Touched(b.gap, postsize))]

\* The line the two memcpy calls of lines 295-296 build, and what they access.
finalize(b, m) ==
    LET presize == b.gap - b.start
        postsize == b.end - b.post
    IN [line |-> Bytes(m, b.start, presize) \o Bytes(m, b.post, postsize),
        acc |-> Access(b, Touched(b.start, presize)
                            \cup Touched(b.post, postsize))]

\* What restore_terminal leaves: the saved attributes, or on failure the
\* attributes as they were.
restore_terminal(t, saved, ok) == IF ok THEN saved ELSE t

\* Lines 226-229 and 285-302: newline; the line is built, the terminal
\* restored and the line returned.
Submit ==
    /\ Running
    /\ \E read \in Seen(NL) : Record(read, Cmd("submit", 0))
    /\ \E ok \in BOOLEAN :
         LET f == finalize(buffer, mem) IN
         \/ /\ f.acc.oob
            /\ pc' = "crashed"
            /\ out' = CRLF
            /\ UNCHANGED <<prompt, prompt_len, term_vars, buf_vars, ret, ub,
                           ref_vars>>
         \/ /\ ~f.acc.far
            /\ out' = CRLF
            /\ ub' = (ub \/ f.acc.oob)
            /\ tty' = restore_terminal(tty, old_termios, ok)
            /\ restores' = restores + 1
            /\ restore_failed' = (restore_failed \/ ~ok)
            /\ pc' = "done"
            /\ ret' = RetLine(f.line)
            /\ UNCHANGED <<prompt, prompt_len, old_termios, acquired,
                           buf_vars, ref_vars>>

Next ==
    \/ SetupFails
    \/ InitFails
    \/ EnterLoop
    \/ NoKey
    \/ Backwards
    \/ Forwards
    \/ ToStart
    \/ ToEnd
    \/ DeleteForwards
    \/ DeleteAll
    \/ DeleteBackwards
    \/ Insert
    \/ InsertFails
    \/ Submit
    \/ SubmitFails

Spec == Init /\ [][Next]_vars
SpecRef == InitRef /\ [][Next]_vars

\* The run in which every read and the case it reached are recorded, up to
\* the first access outside the allocation.
InitKey == InitProgram /\ prompt \in Prompts /\ Observe(FALSE, TRUE, TRUE)
SpecKey == InitKey /\ [][Next]_vars

\* The runs over every prompt of at most MaxPrompt bytes, up to the first
\* access outside the allocation.
MaxPrompt == 4
PromptByte == {SOH, STX, CH_a}
RECURSIVE PromptsOfLen(_)
PromptsOfLen(n) ==
    IF n = 0 THEN {<<>>}
    ELSE {Append(p, x) : p \in PromptsOfLen(n - 1), x \in PromptByte}
AllPrompts == UNION {PromptsOfLen(n) : n \in 0 .. MaxPrompt}
InitPrompt == InitProgram /\ prompt \in AllPrompts /\ Observe(FALSE, TRUE, FALSE)
SpecPrompt == InitPrompt /\ [][Next]_vars

\* ------------------------------------------------------------------ claims
Valid(b) == b.start <= b.gap /\ b.gap <= b.post /\ b.post <= b.end
Capacity == buffer.end - buffer.start

\* C1: in the differential run the line of the buffer, pre ++ post, equals the
\* reference line after every sequence of non-submit key events.
C1_Concatenation == (tracking /\ pc = "loop") => Line = ref.text

\* C2: once setup_terminal has succeeded, bread_line has called
\* restore_terminal exactly once whenever it has returned.
C2_RestoredOnReturn == (pc = "done" /\ acquired) => restores = 1

\* C3: in the edit loop the cursor lies in [0, len(pre) + len(post)]; a
\* move-left at 0 and a move-right at the end leave it where it is.
C3_CursorBounds ==
    [][/\ pc' = "loop" => (0 <= Cursor' /\ Cursor' <= Len(Line'))
       /\ (Backwards /\ pc' = "loop" /\ Cursor = 0) => Cursor' = Cursor
       /\ (Forwards /\ pc' = "loop" /\ Cursor = Len(Line)) => Cursor' = Cursor]_vars

\* C4: an insertion that doubles the allocation keeps the bytes of the line in
\* order, puts the new byte at the cursor and moves the cursor past it.
C4_GrowthPreserves ==
    [][(Insert /\ pc' = "loop" /\ Valid(buffer) /\ 0 <= Cursor
          /\ Cursor <= Len(Line) /\ buffer'.end > buffer.end)
       => /\ \E ch \in Byte :
               Line' = SubSeq(Line, 1, Cursor) \o <<ch>>
                         \o SubSeq(Line, Cursor + 1, Len(Line))
          /\ Cursor' = Cursor + 1]_vars

\* C5: move-to-start puts the cursor at 0 and move-to-end puts it at the
\* length of the line, whatever the pending offset was.
C5_StartEnd ==
    [][/\ (ToStart /\ pc' = "loop") => Cursor' = 0
       /\ (ToEnd /\ pc' = "loop") => Cursor' = Len(Line')]_vars

\* C6: delete-all leaves the empty line with the cursor at 0, whatever the
\* pending offset was.
C6_DeleteAllEmpties ==
    [][(DeleteAll /\ pc' = "loop") => (Line' = <<>> /\ Cursor' = 0)]_vars

\* C7: a newline ends the loop in that iteration without touching the
\* buffer, the line returned is pre ++ post as it stood (the pending offset
\* is not applied, the newline is not part of it), and a line is returned by
\* no other step.
C7_SubmitReturnsLine ==
    [][/\ (pc = "loop" /\ out' = CRLF)
            => (pc' # "loop" /\ buffer' = buffer /\ mem' = mem)
       /\ (~ret.returned /\ ret'.returned /\ ~ret'.null)
            => (pc = "loop" /\ out' = CRLF /\ ret'.line = Line
                  /\ Len(ret'.line) = Len(Pre) + Len(Post))]_vars

\* C7 witness: a line of two bytes was returned while a pending offset was
\* unresolved and text followed the gap.
C7_Witness ==
    /\ pc = "done"
    /\ ~ret.null
    /\ Len(ret.line) = 2
    /\ buffer.relpos # 0
    /\ buffer.post < buffer.end
    /\ ~ub

\* C8: once buffer_init has succeeded, the allocation has been freed exactly
\* once whenever bread_line has returned.
C8_FreedOnReturn == (pc = "done" /\ allocs = 1) => frees = 1

\* C9: a failed insertion leaves the line, the cursor and the capacity as
\* they were, and the pointers in order.
C9_FailedInsertKeeps ==
    [][(InsertFails /\ pc' = "done")
       => /\ Line' = Line
          /\ Cursor' = Cursor
          /\ buffer'.end - buffer'.start = Capacity
          /\ Valid(buffer')]_vars

\* C10: when restore_terminal has failed, bread_line returns NULL.
C10_RestoreFailureSurfaced == (pc = "done" /\ restore_failed) => ret.null

\* C11: when the terminal cannot be acquired (tcgetattr or tcsetattr fails)
\* bread_line returns NULL having written the prompt at most: no key was read,
\* nothing was redrawn, no buffer was allocated, and the attributes of the
\* terminal are the ones it had before the call.
C11_FailedAcquisition ==
    [][(pc = "start" /\ pc' = "done" /\ ~acquired') =>
         /\ ret' = RetNull
         /\ tty' = tty
         /\ allocs' = 0 /\ buffer' = NoBuffer /\ mem' = NoMem
         /\ out' = [col |-> 0, text |-> prompt, back |-> 0]
         /\ rd' = NoRead /\ cmd' = NoCmd]_vars
\* tcsetattr failed: the attributes were saved, and NULL was returned.
C11_Witness ==
    /\ pc = "done" /\ ~acquired /\ ret = RetNull
    /\ old_termios = tty /\ tty \in InitialTermios

\* C12: the loop returns only on a newline key or on an insertion whose
\* growth failed; an iteration whose read failed, or read an unrecognized
\* 3-byte escape sequence, or gave no event otherwise, stays in the loop and
\* leaves the line, the logical cursor and the capacity as they were.
UnknownEscape(r) ==
    /\ r.n = 3 /\ r.c[1] = ESC /\ r.c[2] = LBRACKET
    /\ r.c[3] \notin {CH_A, CH_B, CH_C, CH_D}
C12_LoopExit ==
    [][pc = "loop" =>
         /\ pc' = "done" =>
              \/ cmd'.op = "submit"
              \/ cmd'.op = "insert" /\ ret' = RetNull /\ NeedsGrow(buffer, mem)
         /\ (rd'.n < 0 \/ UnknownEscape(rd') \/ cmd'.op = "none") =>
              /\ pc' = "loop"
              /\ Line' = Line /\ Cursor' = Cursor /\ Capacity' = Capacity]_vars
\* A failed read in a loop that holds text with the cursor inside it.
C12_Witness ==
    /\ pc = "loop" /\ rd.n < 0 /\ cmd.op = "none"
    /\ Len(Line) = 2 /\ Cursor = 1

\* C13: the command an iteration applies is the one the decoding table gives
\* for the outcome of its read: a read error gives no event; fewer than 3
\* bytes, or 3 bytes that do not start with ESC '[', give the first byte;
\* ESC '[' A, B, C, D give move-to-start, move-to-end, move-right, move-left
\* and any other third byte no event; the first byte is Ctrl-A (start),
\* Ctrl-B (left), Ctrl-D (delete forward), Ctrl-E (end), Ctrl-F (right),
\* Ctrl-H or 0x7f (delete backward), Ctrl-U (delete all), newline (submit),
\* and every other byte is inserted.
ByteCommand(b) ==
    CASE b = 1 -> Cmd("start", 0)
      [] b = 2 -> Cmd("left", 0)
      [] b = 4 -> Cmd("delete-forward", 0)
      [] b = 5 -> Cmd("end", 0)
      [] b = 6 -> Cmd("right", 0)
      [] b = 8 \/ b = 127 -> Cmd("delete-backward", 0)
      [] b = 21 -> Cmd("delete-all", 0)
      [] b = 10 -> Cmd("submit", 0)
      [] OTHER -> Cmd("insert", b)
ClaimDecode(r) ==
    IF r.n < 0 THEN Cmd("none", 0)
    ELSE IF r.n < 3 THEN ByteCommand(r.c[1])
    ELSE IF r.c[1] # 27 \/ r.c[2] # 91 THEN ByteCommand(r.c[1])
    ELSE CASE r.c[3] = 65 -> Cmd("start", 0)
           [] r.c[3] = 66 -> Cmd("end", 0)
           [] r.c[3] = 67 -> Cmd("right", 0)
           [] r.c[3] = 68 -> Cmd("left", 0)
           [] OTHER -> Cmd("none", 0)
C13_DecodeTable == (pc # "start" /\ rd.n # 0) => cmd = ClaimDecode(rd)
\* An escape sequence, a lone Escape byte that was inserted, or a 3-byte read
\* that is no escape sequence has been read, and the loop is still running.
C13_Witness ==
    /\ pc = "loop"
    /\ \/ rd.n = 3 /\ rd.c = <<ESC, LBRACKET, CH_B>> /\ cmd.op = "end"
       \/ rd.n = 1 /\ rd.c[1] = ESC /\ cmd = Cmd("insert", ESC)
       \/ rd.n = 3 /\ rd.c[1] = CH_a /\ rd.c[2] = LBRACKET
    /\ Len(Line) = 2

\* The line and the cursor of a buffer b over memory m.
LineOf(b, m) ==
    Bytes(m, b.start, b.gap - b.start) \o Bytes(m, b.post, b.end - b.post)
CursorOf(b) == (b.gap - b.start) + b.relpos
SameLogical(b1, m1, b2, m2) ==
    LineOf(b1, m1) = LineOf(b2, m2) /\ CursorOf(b1) = CursorOf(b2)
\* The buffer r.b left by a boundary delete shows the line and the cursor of
\* the current buffer, and so does every cursor command applied to both.
Unnoticed(r) ==
    /\ SameLogical(r.b, r.m, buffer, mem)
    /\ SameLogical(buffer_forwards(r.b), r.m, buffer_forwards(buffer), mem)
    /\ SameLogical(buffer_backwards(r.b), r.m, buffer_backwards(buffer), mem)
    /\ SameLogical(move_to_start(r.b), r.m, move_to_start(buffer), mem)
    /\ SameLogical(move_to_end(r.b), r.m, move_to_end(buffer), mem)
    /\ SameLogical(delete_all(r.b), r.m, delete_all(buffer), mem)

\* C14: delete-forward with no text after the cursor, and delete-backward
\* with no text before it, change neither the line nor the cursor, and a
\* command applied afterwards gives what it gives without the delete.
C14_BoundaryDelete ==
    pc = "loop" =>
      /\ Cursor >= Len(Line) => Unnoticed(buffer_delete_forwards(buffer, mem))
      /\ Cursor <= 0 => Unnoticed(buffer_delete_backwards(buffer, mem))

\* C15: the attributes of the terminal during the loop are the saved ones
\* with OPOST cleared among the output flags and ICANON and ECHO cleared
\* among the local flags, every other flag as saved.
C15_RawAttributes ==
    (pc = "loop" /\ acquired) =>
      /\ tty.oflag = old_termios.oflag \ {"OPOST"}
      /\ tty.lflag = old_termios.lflag \ {"ECHO", "ICANON"}

\* C16: the visible width of the prompt, computed once before the loop and
\* used as the column of every redraw, is the number of prompt bytes that are
\* no marker (0x01, 0x02) and do not lie between a begin-invisible marker and
\* the next end-invisible marker, also where markers repeat or do not pair.
Hidden(p, i) ==
    \E j \in 1 .. (i - 1) :
      /\ p[j] = 1
      /\ \A k \in (j + 1) .. (i - 1) : p[k] # 2
VisibleWidth(p) ==
    Cardinality({i \in 1 .. Len(p) : p[i] \notin {1, 2} /\ ~Hidden(p, i)})
C16_PromptWidth ==
    [][/\ pc' # "start" => prompt_len' = VisibleWidth(prompt)
       /\ (pc = "loop" /\ pc' = "loop") => out'.col = VisibleWidth(prompt)
       /\ prompt' = prompt]_vars
\* A redraw under a prompt that opens an invisible span twice and closes it
\* once, with one byte visible after it.
C16_Witness ==
    /\ pc = "loop" /\ prompt = <<SOH, SOH, STX, CH_a>>
    /\ out.col = 1 /\ Len(out.text) = 1

\* C17: after the redraw that ends an iteration the terminal shows
\* pre ++ post from the column of the prompt width on, and a cursor-backward
\* escape is written exactly when the cursor is not at the end of the line,
\* its count being len(pre) + len(post) - cursor (so that the terminal cursor
\* stands at prompt width + cursor).
C17_Redraw ==
    [][(pc = "loop" /\ pc' = "loop") =>
         /\ out'.col = prompt_len
         /\ out'.text = Line'
         /\ out'.back # 0 <=> Cursor' # Len(Line')
         /\ out'.back >= 0 /\ out'.back = Len(Line') - Cursor']_vars

\* What resolving the pending offset of the current buffer must give.
Abs(k) == IF k < 0 THEN 0 - k ELSE k
Resolved(r) ==
    /\ LineOf(r.b, r.m) = Line
    /\ CursorOf(r.b) = Cursor
    /\ r.b.end - r.b.start = Capacity
    /\ r.b.relpos = 0
    /\ r.b.gap - r.b.start = Cursor
    /\ Cardinality({a \in DOMAIN mem : r.m[a] # mem[a]}) <= Abs(buffer.relpos)
    /\ ~r.acc.oob
    /\ buffer_move_gap(r.b, r.m) = Res(r.b, r.m, NoAccess)

\* C18: from a state whose cursor lies in the line, resolving the pending
\* offset k moves |k| bytes from one run to the other and leaves pre ++ post,
\* the cursor and the capacity as they were, with the offset 0 and
\* len(pre) = cursor; resolving once more changes nothing.
C18_ResolveOffset ==
    (pc = "loop" /\ 0 <= Cursor /\ Cursor <= Len(Line)) =>
      Resolved(buffer_move_gap(buffer, mem))

\* The capacities the doubling of line 94 gives from the initial size.
RECURSIVE Doubled(_, _)
Doubled(size, n) == IF n = 0 THEN {size} ELSE {size} \cup Doubled(size * 2, n - 1)
Capacities == Doubled(BREAD_INITIAL_SIZE, MaxSize)

\* C19: in every state of the loop start <= gap <= post <= end, the capacity
\* is the initial size doubled some number of times, and no insertion, gap
\* move, redraw or final copy has read or written a byte outside [start, end).
C19_InBounds ==
    pc \in {"loop", "done"} /\ allocs = 1 =>
      /\ pc = "loop" => Valid(buffer) /\ Capacity \in Capacities
      /\ ~ub

\* C20: an iteration whose read delivered no byte inserts no byte and applies
\* no command.
C20_ZeroByteRead == rd.n = 0 => cmd.op = "none"
====
